---------------------------- MODULE Spec2Model ----------------------------
(***************************************************************************)
(* A model of src/app.py: the App Platform -> Loki log forwarder.          *)
(*                                                                         *)
(*   - strings are sequences of one-character strings, so that split,      *)
(*     strip and the f-string that builds the tracker key are computed;    *)
(*   - a log line is a sequence of tokens; a token is a word or a          *)
(*     timestamp-shaped token (one the regular expression of               *)
(*     format_log_timestamp matches);                                      *)
(*   - the md5 digest of the tail window is modelled as a collision-free   *)
(*     function of the joined text of the window.                          *)
(*                                                                         *)
(* Five specifications share the variables:                                *)
(*   Spec            the whole program, from __main__ to the polling loop; *)
(*   TrackerSpec     get_new_logs_only called directly with any RawLineSet;*)
(*   BatchSpec       batch_logs called directly with any sequence and size;*)
(*   NormalizerSpec  format_log_timestamp called directly with any line;   *)
(*   KeySpec         get_new_logs_only for identifiers that contain ':'.   *)
(***************************************************************************)
EXTENDS Integers, Sequences, FiniteSets, TLC

(***************************************************************************)
(* Bounds of the model.                                                    *)
(***************************************************************************)
\* longest RawLineSet the upstream returns in Spec
MaxLen == 3

\* largest batch size tried by the direct calls of batch_logs in BatchSpec
MaxBatch == 4

\* longest RawLineSet below the hash window passed to the tracker in
\* TrackerSpec
MaxShort == 2

(***************************************************************************)
(* Python helpers.                                                         *)
(***************************************************************************)
Min(a, b) == IF a < b THEN a ELSE b
Max(a, b) == IF a > b THEN a ELSE b

\* s[start:] of Python: a negative start counts from the end, and an
\* out-of-range start is clamped.
PySliceFrom(s, start) ==
    LET n    == Len(s)
        from == IF start < 0 THEN Max(n + start, 0) ELSE Min(start, n)
    IN  SubSeq(s, from + 1, n)

\* s[start:stop] of Python for 0 <= start: stop is clamped to len(s).
PySlice(s, start, stop) ==
    SubSeq(s, Min(start, Len(s)) + 1, Min(Max(stop, 0), Len(s)))

\* sep.join(parts), parts a sequence of sequences
RECURSIVE PyJoin(_, _)
PyJoin(sep, parts) ==
    IF parts = <<>> THEN <<>>
    ELSE IF Len(parts) = 1 THEN parts[1]
    ELSE parts[1] \o sep \o PyJoin(sep, Tail(parts))

\* range(0, stop, step) of Python as a sequence; step = 0 raises ValueError
\* and is handled by the callers.
RECURSIVE PyRangeFrom(_, _, _)
PyRangeFrom(i, stop, step) ==
    IF step > 0 /\ i < stop THEN <<i>> \o PyRangeFrom(i + step, stop, step)
    ELSE IF step < 0 /\ i > stop THEN <<i>> \o PyRangeFrom(i + step, stop, step)
    ELSE <<>>

PyRange(stop, step) == PyRangeFrom(0, stop, step)

\* a dict: a function whose domain is the set of keys present
EmptyDict == [k \in {} |-> 0]
DictSet(d, key, value) ==
    [k \in (DOMAIN d) \cup {key} |-> IF k = key THEN value ELSE d[k]]


(***************************************************************************)
(* Log lines.  A token is a record [text, ts]: a word has ts = <<>>; a     *)
(* token the pattern \d{4}-\d{2}-\d{2}T\d{2}:\d{2}:\d{2}\.\d+Z matches has  *)
(* text = "" and ts = <<year, month, day, hour, minute, second, fraction>>.*)
(***************************************************************************)
Word(t) == [text |-> t, ts |-> <<>>]
Stamp(y, mo, d, h, mi, s, frac) == [text |-> "", ts |-> <<y, mo, d, h, mi, s, frac>>]

\* the token of the docstring of format_log_timestamp
StampDoc == Stamp(2025, 10, 27, 19, 50, 32, 682366470)
\* a later instant
StampLater == Stamp(2025, 10, 27, 19, 50, 33, 1)
\* matches the pattern, but names no instant (month 13)
StampBad == Stamp(2025, 13, 27, 19, 50, 32, 5)

LineA == <<Word("web"), StampDoc, Word("listening")>>
LineB == <<Word("ready")>>
LineC == <<StampBad, Word("boot"), StampLater>>
LineD == <<StampLater, Word("tick"), StampDoc>>

\* the lines the upstream log is made of
Lines == {LineA, LineB}

\* the lines format_log_timestamp is exercised on
AllLines == {LineA, LineB, LineC, LineD}

\* the text of one line break
Newline == <<Word("\n")>>

(***************************************************************************)
(* format_log_timestamp (src/app.py:66-86)                                 *)
(***************************************************************************)
None == <<>>

IsTimestampToken(tok) == tok.ts # <<>>

\* re.search: the index of the first token the pattern matches, 0 if none
FirstMatch(log_line) ==
    LET hits == {i \in 1..Len(log_line) : IsTimestampToken(log_line[i])}
    IN  IF hits = {} THEN 0 ELSE CHOOSE i \in hits : \A j \in hits : i <= j

DaysInMonth(y, mo) ==
    IF mo \in {4, 6, 9, 11} THEN 30
    ELSE IF mo = 2
         THEN (IF (y % 4 = 0 /\ y % 100 # 0) \/ y % 400 = 0 THEN 29 ELSE 28)
         ELSE 31

\* datetime.fromisoformat succeeds: the fields name an instant
ParsesAsInstant(ts) ==
    /\ ts[1] \in 1..9999
    /\ ts[2] \in 1..12
    /\ ts[3] \in 1..DaysInMonth(ts[1], ts[2])
    /\ ts[4] \in 0..23
    /\ ts[5] \in 0..59
    /\ ts[6] \in 0..59

\* strftime('%Y-%m-%d %H:%M:%S'): the fraction is dropped
FormatInstant(ts) == SubSeq(ts, 1, 6)

\* re.sub(pattern, '', log_line): every match is removed
RemoveMatches(log_line) == SelectSeq(log_line, LAMBDA tok : ~IsTimestampToken(tok))

\* a run of whitespace between tokens
Blank == Word(" ")

\* str.strip() on a line: the whitespace at both ends is removed
RECURSIVE StripLine(_)
StripLine(log_line) ==
    IF log_line = <<>> THEN <<>>
    ELSE IF Head(log_line) = Blank THEN StripLine(Tail(log_line))
    ELSE IF log_line[Len(log_line)] = Blank
         THEN StripLine(SubSeq(log_line, 1, Len(log_line) - 1))
    ELSE log_line

format_log_timestamp(log_line) ==
    LET m == FirstMatch(log_line)
    IN  IF m # 0 /\ ParsesAsInstant(log_line[m].ts)
        THEN [formatted_time |-> FormatInstant(log_line[m].ts),
              cleaned_line   |-> StripLine(RemoveMatches(log_line))]
        ELSE [formatted_time |-> None, cleaned_line |-> log_line]

(***************************************************************************)
(* get_new_logs_only (src/app.py:88-136)                                   *)
(***************************************************************************)
last_n == 50

\* f"{app_id}:{component_name}"
TrackerKey(app_id, component_name) == app_id \o <<":">> \o component_name

\* log_lines[-last_n:] if len(log_lines) > last_n else log_lines
RecentLogs(log_lines) ==
    IF Len(log_lines) > last_n THEN PySliceFrom(log_lines, -last_n) ELSE log_lines

\* hashlib.md5('\n'.join(recent_logs).encode()).hexdigest(): a digest is
\* modelled by the text it was computed from (no collisions)
CurrentHash(log_lines) == [md5 |-> PyJoin(Newline, RecentLogs(log_lines))]

\* lines 104-108: no state for the key, the baseline is stored
FirstRun_sends_backlog(hashes, counts, key, current_hash, log_lines) ==
    [ret    |-> log_lines,
     hashes |-> DictSet(hashes, key, current_hash),
     counts |-> DictSet(counts, key, Len(log_lines))]

FirstRun(hashes, counts, key, current_hash, log_lines) ==
    [ret    |-> <<>>,
     hashes |-> DictSet(hashes, key, current_hash),
     counts |-> DictSet(counts, key, Len(log_lines))]

\* line 111: nothing changed since the stored observation
NoChange_count_greater(stored_hash, stored_count, current_hash, count) ==
    stored_hash = current_hash /\ stored_count > count

NoChange(stored_hash, stored_count, current_hash, count) ==
    stored_hash = current_hash /\ stored_count = count

\* the three branches of lines 119-130
NewLogs_growth_off_by_one(log_lines, last_count) ==
    IF Len(log_lines) > last_count THEN PySliceFrom(log_lines, last_count + 1)
    ELSE IF Len(log_lines) < last_count THEN log_lines
    ELSE PySliceFrom(log_lines, -last_n)

NewLogs_restart_sends_last(log_lines, last_count) ==
    IF Len(log_lines) > last_count THEN PySliceFrom(log_lines, last_count)
    ELSE IF Len(log_lines) < last_count THEN PySliceFrom(log_lines, -1)
    ELSE PySliceFrom(log_lines, -last_n)

NewLogs_in_place_sends_all(log_lines, last_count) ==
    IF Len(log_lines) > last_count THEN PySliceFrom(log_lines, last_count)
    ELSE log_lines

NewLogs(log_lines, last_count) ==
    IF Len(log_lines) > last_count THEN PySliceFrom(log_lines, last_count)
    ELSE IF Len(log_lines) < last_count THEN log_lines
    ELSE PySliceFrom(log_lines, -last_n)

\* lines 116-136: the Delta is computed and the state replaced
Update_keeps_count(hashes, counts, key, current_hash, log_lines) ==
    [ret    |-> NewLogs(log_lines, counts[key]),
     hashes |-> DictSet(hashes, key, current_hash),
     counts |-> counts]

Update(hashes, counts, key, current_hash, log_lines) ==
    [ret    |-> NewLogs(log_lines, counts[key]),
     hashes |-> DictSet(hashes, key, current_hash),
     counts |-> DictSet(counts, key, Len(log_lines))]

\* the value returned and the two dicts afterwards
get_new_logs_only(hashes, counts, log_lines, app_id, component_name) ==
    LET key          == TrackerKey(app_id, component_name)
        current_hash == CurrentHash(log_lines)
    IN  IF log_lines = <<>>
        THEN [ret |-> <<>>, hashes |-> hashes, counts |-> counts]
        ELSE IF key \notin DOMAIN hashes
        THEN FirstRun(hashes, counts, key, current_hash, log_lines)
        ELSE IF NoChange(hashes[key], counts[key], current_hash, Len(log_lines))
        THEN [ret |-> <<>>, hashes |-> hashes, counts |-> counts]
        ELSE Update(hashes, counts, key, current_hash, log_lines)

(***************************************************************************)
(* batch_logs (src/app.py:171-180).  batch_size = 0 makes range() raise    *)
(* ValueError: the callers test for it before they use this operator.      *)
(***************************************************************************)
batch_logs_slice_one_short(log_lines, batch_size) ==
    LET starts == PyRange(Len(log_lines), batch_size)
    IN  [k \in 1..Len(starts) |-> PySlice(log_lines, starts[k], starts[k] + batch_size - 1)]

batch_logs(log_lines, batch_size) ==
    LET starts == PyRange(Len(log_lines), batch_size)
    IN  [k \in 1..Len(starts) |-> PySlice(log_lines, starts[k], starts[k] + batch_size)]

(***************************************************************************)
(* format_for_loki (src/app.py:138-169).  A value is [ts, line]: ts is the *)
(* time of the call (time.time(), abstracted to "now"), line is the text   *)
(* sent, a record [time, body] for "[time] body" and for a line sent as    *)
(* it is (time = None).                                                    *)
(***************************************************************************)
PrettyLog(line) ==
    LET f == format_log_timestamp(line)
    IN  IF f.formatted_time # None
        THEN [time |-> f.formatted_time, body |-> f.cleaned_line]
        ELSE [time |-> None, body |-> line]

LokiValue(line) == [ts |-> "now", line |-> PrettyLog(line)]

\* None is modelled by a record with no stream
NoRecord == [streams |-> <<>>]

format_for_loki_skips_first(log_lines, app_id, component_name, app_name) ==
    IF log_lines = <<>> THEN NoRecord
    ELSE [streams |-> <<
            [stream |-> [app_id    |-> app_id,
                         component |-> component_name,
                         app_name  |-> app_name,
                         source    |-> "digitalocean_app_platform",
                         job       |-> "app_logs"],
             values |-> [k \in 1..(Len(log_lines) - 1) |-> LokiValue(log_lines[k + 1])]] >>]

format_for_loki(log_lines, app_id, component_name, app_name) ==
    IF log_lines = <<>> THEN NoRecord
    ELSE [streams |-> <<
            [stream |-> [app_id    |-> app_id,
                         component |-> component_name,
                         app_name  |-> app_name,
                         source    |-> "digitalocean_app_platform",
                         job       |-> "app_logs"],
             values |-> [k \in 1..Len(log_lines) |-> LokiValue(log_lines[k])]] >>]


(***************************************************************************)
(* parse_apps_config (src/app.py:313-331)                                  *)
(***************************************************************************)
\* a Python string as a sequence of characters
Str1(a) == <<a>>
Str3(a, b, c) == <<a, b, c>>

\* s.split(sep) for a one-character separator
RECURSIVE PySplit(_, _)
PySplit(s, sep) ==
    LET hits == {k \in 1..Len(s) : s[k] = sep}
    IN  IF hits = {} THEN <<s>>
        ELSE LET k == CHOOSE x \in hits : \A y \in hits : x <= y
             IN  <<SubSeq(s, 1, k - 1)>> \o PySplit(SubSeq(s, k + 1, Len(s)), sep)

\* s.strip()
RECURSIVE PyStrip(_)
PyStrip(s) ==
    IF s = <<>> THEN s
    ELSE IF Head(s) = " " THEN PyStrip(Tail(s))
    ELSE IF s[Len(s)] = " " THEN PyStrip(SubSeq(s, 1, Len(s) - 1))
    ELSE s

\* the config of one entry, or no config when it has fewer than two parts
ParseEntry(app_config) ==
    LET parts == PySplit(PyStrip(app_config), ":")
    IN  IF Len(parts) >= 2
        THEN << [app_id         |-> PyStrip(parts[1]),
                 component_name |-> PyStrip(parts[2]),
                 app_name       |-> IF Len(parts) > 2 THEN PyStrip(parts[3]) ELSE <<>>] >>
        ELSE <<>>

RECURSIVE ParseEntries(_)
ParseEntries(entries) ==
    IF entries = <<>> THEN <<>>
    ELSE ParseEntry(Head(entries)) \o ParseEntries(Tail(entries))

parse_apps_config(apps_string) == ParseEntries(PySplit(apps_string, ","))


(***************************************************************************)
(* The environment of the process (src/app.py:335-346).  An unset variable *)
(* and an empty one are both falsy and are both the empty string here;     *)
(* DO_TOKEN and LOKI_URL are only tested for being set.                    *)
(***************************************************************************)
BaseEnv ==
    [DO_TOKEN       |-> TRUE,
     LOKI_URL       |-> TRUE,
     APPS_CONFIG    |-> <<>>,
     APP_ID         |-> <<>>,
     COMPONENT_NAME |-> <<>>,
     INTERVAL       |-> 60,
     BATCH_SIZE     |-> 1000]

\* "a:w:p,b:w"
TwoApps == <<"a", ":", "w", ":", "p", ",", "b", ":", "w">>
\* " a : w ,x": blanks to strip, and an entry with a single part
PaddedApp == <<" ", "a", " ", ":", " ", "w", " ", ",", "x">>
\* "a,b": no entry has two parts
NoPairs == <<"a", ",", "b">>

Environments ==
    {[BaseEnv EXCEPT !.APPS_CONFIG = TwoApps, !.BATCH_SIZE = 2],
     [BaseEnv EXCEPT !.APPS_CONFIG = PaddedApp, !.BATCH_SIZE = 1],
     [BaseEnv EXCEPT !.APPS_CONFIG = NoPairs],
     [BaseEnv EXCEPT !.APP_ID = Str1("a"), !.COMPONENT_NAME = Str1("w")],
     [BaseEnv EXCEPT !.APP_ID = Str1("a"), !.COMPONENT_NAME = Str1("w"),
                     !.BATCH_SIZE = 0],
     [BaseEnv EXCEPT !.APP_ID = Str1("a"), !.COMPONENT_NAME = Str1("w"),
                     !.BATCH_SIZE = -1],
     [BaseEnv EXCEPT !.APP_ID = Str1("a"), !.COMPONENT_NAME = Str1("w"),
                     !.INTERVAL = -1],
     [BaseEnv EXCEPT !.APP_ID = Str1("a")],
     BaseEnv,
     [BaseEnv EXCEPT !.APPS_CONFIG = TwoApps, !.DO_TOKEN = FALSE],
     [BaseEnv EXCEPT !.APPS_CONFIG = TwoApps, !.LOKI_URL = FALSE]}

\* every sequence over S of length at most n
SeqsUpTo(S, n) == UNION {[1..k -> S] : k \in 0..n}

\* what one poll of the upstream can return in Spec
FetchSets == SeqsUpTo(Lines, MaxLen)

(***************************************************************************)
(* State.                                                                  *)
(***************************************************************************)
VARIABLES
    env,              \* os.getenv: the configuration
    pc,               \* where the process is
    exit_status,      \* the status the process ended with, -1 while it runs
    apps_config,      \* the list of targets
    idx,              \* the position of the for loop of line 291
    calls,            \* the positions forward_logs was called for this cycle
    raised_at,        \* the positions forward_logs raised for this cycle
    last_log_hashes,  \* self.last_log_hashes
    last_log_count,   \* self.last_log_count
    observed,         \* per key, the lines the stored state was taken from
    latest,           \* per key, the last non-empty list of lines passed
    call,             \* the last call of get_new_logs_only or batch_logs
    logs,             \* forward_logs: what get_app_logs returned
    live,             \* forward_logs: how the fetch of the live_url went
    all_log_lines,    \* forward_logs: what parse_log_lines returned
    new_logs,         \* forward_logs: the Delta
    batches,          \* forward_logs: the batches of the Delta
    i,                \* forward_logs: the batch about to be pushed
    success_count,    \* forward_logs: the pushes that succeeded
    attempts,         \* forward_logs: the pushes made, in order, with outcome
    result            \* what the last forward_logs returned

vars == <<env, pc, exit_status, apps_config, idx, calls, raised_at,
          last_log_hashes, last_log_count, observed, latest, call, logs,
          live, all_log_lines, new_logs, batches, i, success_count, attempts, result>>

frame == <<logs, live, all_log_lines, new_logs, batches, i, success_count,
           attempts, result>>

cycle == <<idx, calls, raised_at>>

tracker == <<last_log_hashes, last_log_count, observed, latest, call>>

NoCall ==
    [fn |-> "none", app_id |-> <<>>, component_name |-> <<>>, key |-> <<>>,
     log_lines |-> <<>>, batch_size |-> 0, ret |-> <<>>, raised |-> FALSE,
     repeat |-> FALSE, had_state |-> FALSE, hash_before |-> [md5 |-> <<>>], count_before |-> 0,
     observed_before |-> <<>>]

\* the state right after AppPlatformToLoki.__init__ (lines 23-24)
InitObject ==
    /\ last_log_hashes = EmptyDict
    /\ last_log_count = EmptyDict
    /\ observed = EmptyDict
    /\ latest = EmptyDict
    /\ call = NoCall
    /\ logs = "none"
    /\ live = "none"
    /\ all_log_lines = <<>>
    /\ new_logs = <<>>
    /\ batches = <<>>
    /\ i = 0
    /\ success_count = 0
    /\ attempts = <<>>
    /\ result = "none"
    /\ apps_config = <<>>
    /\ idx = 0
    /\ calls = <<>>
    /\ raised_at = <<>>
    /\ exit_status = -1

Init ==
    /\ env \in Environments
    /\ pc = "main"
    /\ InitObject

(***************************************************************************)
(* The call of get_new_logs_only on the object's dicts, with the record of *)
(* the call kept in `call`.                                                *)
(***************************************************************************)
DoGetNewLogsOnly(log_lines, app_id, component_name) ==
    LET key == TrackerKey(app_id, component_name)
        had == key \in DOMAIN last_log_hashes
        r   == get_new_logs_only(last_log_hashes, last_log_count, log_lines,
                                 app_id, component_name)
        wrote == r.hashes # last_log_hashes \/ r.counts # last_log_count
    IN  /\ last_log_hashes' = r.hashes
        /\ last_log_count' = r.counts
        /\ observed' = IF wrote THEN DictSet(observed, key, log_lines) ELSE observed
        /\ latest' = IF log_lines # <<>> THEN DictSet(latest, key, log_lines) ELSE latest
        /\ call' = [fn |-> "get_new_logs_only", app_id |-> app_id,
                    component_name |-> component_name, key |-> key,
                    log_lines |-> log_lines, batch_size |-> 0, ret |-> r.ret,
                    raised |-> FALSE,
                    repeat |-> /\ call.fn = "get_new_logs_only"
                               /\ call.key = key
                               /\ call.log_lines = log_lines,
                    had_state |-> had,
                    hash_before |-> IF had THEN last_log_hashes[key] ELSE [md5 |-> <<>>],
                    count_before |-> IF had /\ key \in DOMAIN last_log_count
                                     THEN last_log_count[key] ELSE 0,
                    observed_before |-> IF key \in DOMAIN observed
                                        THEN observed[key] ELSE <<>>]


(***************************************************************************)
(* __main__ (src/app.py:334-380)                                           *)
(***************************************************************************)
Truthy(str) == str # <<>>

\* the list of targets of lines 352-366; the else branch exits
ConfiguredApps(e) ==
    IF Truthy(e.APPS_CONFIG) THEN parse_apps_config(e.APPS_CONFIG)
    ELSE << [app_id         |-> e.APP_ID,
             component_name |-> e.COMPONENT_NAME,
             app_name       |-> <<"d", "e", "f", "a", "u", "l", "t">>] >>

\* the process refuses to start: lines 348-350 and 364-366
RefusesToStart(e) ==
    \/ ~e.DO_TOKEN
    \/ ~e.LOKI_URL
    \/ /\ ~Truthy(e.APPS_CONFIG)
       /\ ~(Truthy(e.APP_ID) /\ Truthy(e.COMPONENT_NAME))

Main ==
    /\ pc = "main"
    /\ IF RefusesToStart(env)
       THEN /\ pc' = "exited"
            /\ exit_status' = 1
            /\ UNCHANGED apps_config
       ELSE /\ pc' = "while"
            /\ apps_config' = ConfiguredApps(env)
            /\ UNCHANGED exit_status
    /\ UNCHANGED <<env, cycle, tracker, frame>>

(***************************************************************************)
(* run_continuous_multi (src/app.py:267-310)                               *)
(***************************************************************************)
\* line 285-289: a cycle starts
StartCycle ==
    /\ pc = "while"
    /\ pc' = "for"
    /\ idx' = 1
    /\ calls' = <<>>
    /\ raised_at' = <<>>
    /\ UNCHANGED <<env, exit_status, apps_config, tracker, frame>>

\* lines 291-297: the next target, forward_logs is entered
CallForwardLogs ==
    /\ pc = "for"
    /\ idx <= Len(apps_config)
    /\ pc' = "get_app_logs"
    /\ calls' = Append(calls, idx)
    /\ call' = NoCall
    /\ logs' = "none"
    /\ live' = "none"
    /\ all_log_lines' = <<>>
    /\ new_logs' = <<>>
    /\ batches' = <<>>
    /\ i' = 0
    /\ success_count' = 0
    /\ attempts' = <<>>
    /\ result' = "none"
    /\ UNCHANGED <<env, exit_status, apps_config, idx, raised_at,
                   last_log_hashes, last_log_count, observed, latest>>

\* lines 302-303: every target was processed, the cycle sleeps.  A negative
\* interval makes time.sleep raise ValueError, which line 308 catches.
EndCycle ==
    /\ pc = "for"
    /\ idx > Len(apps_config)
    /\ pc' = IF env.INTERVAL < 0 THEN "except_loop" ELSE "sleep"
    /\ UNCHANGED <<env, exit_status, apps_config, cycle, tracker, frame>>

\* line 303 returns
WakeUp ==
    /\ pc = "sleep"
    /\ pc' = "while"
    /\ UNCHANGED <<env, exit_status, apps_config, cycle, tracker, frame>>

\* lines 308-310: the fallback sleep; with a negative interval it raises
\* inside the handler and the exception leaves the process
FallbackSleep ==
    /\ pc = "except_loop"
    /\ IF env.INTERVAL < 0
       THEN pc' = "crashed" /\ exit_status' = 1
       ELSE pc' = "while" /\ UNCHANGED exit_status
    /\ UNCHANGED <<env, apps_config, cycle, tracker, frame>>

\* the places of the try block of lines 286-303
InTry ==
    pc \in {"while", "for", "get_app_logs", "parse_log_lines",
            "get_new_logs_only", "push_batch", "push_single", "return",
            "except_target", "sleep"}

\* KeyboardInterrupt inside the try block: lines 305-307, the loop ends and
\* the process exits normally
Interrupt ==
    /\ InTry
    /\ pc' = "stopped"
    /\ exit_status' = 0
    /\ UNCHANGED <<env, apps_config, cycle, tracker, frame>>

\* KeyboardInterrupt during the sleep of line 310: no handler is active
InterruptFallback ==
    /\ pc = "except_loop"
    /\ pc' = "crashed"
    /\ exit_status' = 1
    /\ UNCHANGED <<env, apps_config, cycle, tracker, frame>>

\* forward_logs returned: the for loop goes on
Return ==
    /\ pc = "return"
    /\ pc' = "for"
    /\ idx' = idx + 1
    /\ UNCHANGED <<env, exit_status, apps_config, calls, raised_at, tracker,
                   frame>>

\* lines 298-300: forward_logs raised, the error is logged, continue
ExceptTarget_breaks ==
    /\ pc = "except_target"
    /\ pc' = "sleep"
    /\ raised_at' = Append(raised_at, idx)
    /\ UNCHANGED <<env, exit_status, apps_config, idx, calls, tracker, frame>>

ExceptTarget ==
    /\ pc = "except_target"
    /\ pc' = "for"
    /\ idx' = idx + 1
    /\ raised_at' = Append(raised_at, idx)
    /\ UNCHANGED <<env, exit_status, apps_config, calls, tracker, frame>>


(***************************************************************************)
(* forward_logs (src/app.py:211-265), one action per call it makes.        *)
(***************************************************************************)
target == apps_config[idx]

\* what get_app_logs can hand back: None after a RequestException, the JSON
\* object of the response (empty, without or with a live_url), or JSON that
\* is no object
GetAppLogsOutcomes == {"None", "empty", "no_live_url", "live_url", "not_a_dict"}

\* `if logs:` of line 217
LogsTruthy(l) == l \in {"no_live_url", "live_url", "not_a_dict"}

\* line 215, and the else branch of lines 263-265
GetAppLogs ==
    /\ pc = "get_app_logs"
    /\ \E l \in GetAppLogsOutcomes :
         /\ logs' = l
         /\ IF LogsTruthy(l)
            THEN pc' = "parse_log_lines" /\ UNCHANGED result
            ELSE pc' = "return" /\ result' = "False"
    /\ UNCHANGED <<env, exit_status, apps_config, cycle, tracker, live,
                   all_log_lines, new_logs, batches, i, success_count, attempts>>

\* parse_log_lines (lines 45-64) returned `lines`; lines 220 and 260-262
ParsedLines_without_test(lines) ==
    /\ all_log_lines' = lines
    /\ pc' = "get_new_logs_only"
    /\ UNCHANGED result

ParsedLines(lines) ==
    /\ all_log_lines' = lines
    /\ IF lines # <<>>
       THEN pc' = "get_new_logs_only" /\ UNCHANGED result
       ELSE pc' = "return" /\ result' = "False"

\* line 218: logs_data.get raises AttributeError on JSON that is no object;
\* without a live_url, or when the live fetch fails, the list stays empty
ParseLogLines ==
    /\ pc = "parse_log_lines"
    /\ \/ /\ logs = "not_a_dict"
          /\ pc' = "except_target"
          /\ result' = "raised"
          /\ UNCHANGED <<all_log_lines, live>>
       \/ /\ logs = "no_live_url"
          /\ live' = "no_url"
          /\ ParsedLines(<<>>)
       \/ /\ logs = "live_url"
          /\ live' = "error"
          /\ ParsedLines(<<>>)
       \/ /\ logs = "live_url"
          /\ live' = "ok"
          /\ \E lines \in FetchSets : ParsedLines(lines)
    /\ UNCHANGED <<env, exit_status, apps_config, cycle, tracker, logs,
                   new_logs, batches, i, success_count, attempts>>

\* lines 232-234 and 250: where the Delta goes.  batch_size = 0 makes the
\* range() of batch_logs raise ValueError.
Dispatch(delta) ==
    IF Len(delta) > env.BATCH_SIZE
    THEN IF env.BATCH_SIZE = 0
         THEN /\ pc' = "except_target"
              /\ result' = "raised"
              /\ UNCHANGED <<batches, i, success_count>>
         ELSE LET bs == batch_logs(delta, env.BATCH_SIZE)
              IN  /\ batches' = bs
                  /\ i' = 1
                  /\ success_count' = 0
                  /\ IF bs = <<>>
                     THEN pc' = "return" /\ result' = "False"
                     ELSE pc' = "push_batch" /\ UNCHANGED result
    ELSE /\ pc' = "push_single"
         /\ UNCHANGED <<batches, i, success_count, result>>

\* lines 224-227
GetNewLogsOnly ==
    /\ pc = "get_new_logs_only"
    /\ DoGetNewLogsOnly(all_log_lines, target.app_id, target.component_name)
    /\ new_logs' = call'.ret
    /\ IF call'.ret = <<>>
       THEN /\ pc' = "return"
            /\ result' = "False"
            /\ UNCHANGED <<batches, i, success_count>>
       ELSE Dispatch(call'.ret)
    /\ UNCHANGED <<env, exit_status, apps_config, cycle, logs, live,
                   all_log_lines, attempts>>

\* push_to_loki (lines 182-209): the request is made and succeeds or fails
PushOutcomes == {TRUE, FALSE}

TruthString(b) == IF b THEN "True" ELSE "False"

\* lines 245-249: after the push of batch `position` of `n`, with `count`
\* pushes succeeded so far and this one `ok` or not
LoopExit_stops_at_failure(position, n, ok, count) ==
    IF position < n /\ ok
    THEN [pc |-> "push_batch", result |-> "none"]
    ELSE [pc |-> "return", result |-> TruthString(count > 0)]

LoopExit(position, n, ok, count) ==
    IF position < n
    THEN [pc |-> "push_batch", result |-> "none"]
    ELSE [pc |-> "return", result |-> TruthString(count > 0)]

\* lines 237-249: one turn of the loop over the batches
PushBatch ==
    /\ pc = "push_batch"
    /\ i <= Len(batches)
    /\ LET formatted_logs == format_for_loki(batches[i], target.app_id,
                                             target.component_name, target.app_name)
       IN  \E ok \in PushOutcomes :
             LET pushed == formatted_logs # NoRecord /\ ok
                 count  == IF pushed THEN success_count + 1 ELSE success_count
             IN  /\ attempts' = IF formatted_logs # NoRecord
                                THEN Append(attempts, [record |-> formatted_logs, ok |-> ok])
                                ELSE attempts
                 /\ success_count' = count
                 /\ i' = i + 1
                 /\ pc' = LoopExit(i, Len(batches), ok, count).pc
                 /\ result' = LoopExit(i, Len(batches), ok, count).result
    /\ UNCHANGED <<env, exit_status, apps_config, cycle, tracker, logs, live,
                   all_log_lines, new_logs, batches>>

\* lines 252-259: the Delta fits one request
PushSingle ==
    /\ pc = "push_single"
    /\ LET formatted_logs == format_for_loki(new_logs, target.app_id,
                                             target.component_name, target.app_name)
       IN  IF formatted_logs # NoRecord
           THEN \E ok \in PushOutcomes :
                  /\ attempts' = Append(attempts, [record |-> formatted_logs, ok |-> ok])
                  /\ result' = TruthString(ok)
           ELSE /\ result' = "False"
                /\ UNCHANGED attempts
    /\ pc' = "return"
    /\ UNCHANGED <<env, exit_status, apps_config, cycle, tracker, logs, live,
                   all_log_lines, new_logs, batches, i, success_count>>

Next ==
    \/ Main
    \/ StartCycle
    \/ CallForwardLogs
    \/ GetAppLogs
    \/ ParseLogLines
    \/ GetNewLogsOnly
    \/ PushBatch
    \/ PushSingle
    \/ Return
    \/ ExceptTarget
    \/ EndCycle
    \/ WakeUp
    \/ FallbackSleep
    \/ Interrupt
    \/ InterruptFallback

Spec == Init /\ [][Next]_vars


(***************************************************************************)
(* TrackerSpec: get_new_logs_only and batch_logs called directly on a      *)
(* fresh object, with any target and any RawLineSet.                       *)
(***************************************************************************)
\* a RawLineSet longer than the window: one line, then last_n filler lines
\* (so the first line is outside the window), then a tail
LongLog(first, tail) == <<first>> \o [k \in 1..last_n |-> LineB] \o tail

\* two that differ outside the window only, and two that differ inside it
LongSets ==
    {LongLog(LineA, <<>>), LongLog(LineB, <<>>),
     LongLog(LineA, <<LineA>>), LongLog(LineA, <<LineB>>)}

RawLineSets == SeqsUpTo(Lines, MaxShort) \cup LongSets

\* (app_id, component_name) pairs
UnitTargets ==
    {<<Str1("a"), Str1("w")>>,
     <<Str1("b"), Str1("w")>>}

TrackerInit ==
    /\ env = BaseEnv
    /\ pc = "unit"
    /\ InitObject

UnitGetNewLogsOnly ==
    /\ pc = "unit"
    /\ \E t \in UnitTargets, lines \in RawLineSets :
         DoGetNewLogsOnly(lines, t[1], t[2])
    /\ UNCHANGED <<env, pc, exit_status, apps_config, cycle, frame>>

TrackerNext == UnitGetNewLogsOnly

TrackerSpec == TrackerInit /\ [][TrackerNext]_vars

(***************************************************************************)
(* BatchSpec: batch_logs called directly, with any sequence and any size.  *)
(***************************************************************************)
BatchInputs == FetchSets \cup LongSets

BatchInit ==
    /\ env = BaseEnv
    /\ pc = "unit_batch"
    /\ InitObject

\* batch_logs raises ValueError for batch_size = 0 (range() arg 3)
UnitBatchLogs ==
    /\ pc = "unit_batch"
    /\ \E lines \in BatchInputs, size \in (-1)..MaxBatch :
         call' = [NoCall EXCEPT
                    !.fn = "batch_logs",
                    !.log_lines = lines,
                    !.batch_size = size,
                    !.raised = (size = 0),
                    !.ret = IF size = 0 THEN <<>> ELSE batch_logs(lines, size)]
    /\ UNCHANGED <<env, pc, exit_status, apps_config, cycle, frame,
                   last_log_hashes, last_log_count, observed, latest>>

BatchNext == UnitBatchLogs

BatchSpec == BatchInit /\ [][BatchNext]_vars


(***************************************************************************)
(* NormalizerSpec: format_log_timestamp called directly with any line made *)
(* of a few tokens.                                                        *)
(***************************************************************************)
\* longest line, in tokens, passed to format_log_timestamp
MaxTokens == 3

Tokens == {Word("web"), Blank, StampDoc, StampLater, StampBad}

NormalizerInputs == AllLines \cup SeqsUpTo(Tokens, MaxTokens)

NormalizerInit ==
    /\ env = BaseEnv
    /\ pc = "unit_format"
    /\ InitObject

\* the tuple (formatted_time, cleaned_line) of lines 81, 84 and 86; no
\* statement outside the try block of lines 77-84 can raise on a str
UnitFormatLogTimestamp ==
    /\ pc = "unit_format"
    /\ \E line \in NormalizerInputs :
         LET f == format_log_timestamp(line)
         IN  call' = [NoCall EXCEPT
                        !.fn = "format_log_timestamp",
                        !.log_lines = line,
                        !.ret = <<f.formatted_time, f.cleaned_line>>]
    /\ UNCHANGED <<env, pc, exit_status, apps_config, cycle, frame,
                   last_log_hashes, last_log_count, observed, latest>>

NormalizerNext == UnitFormatLogTimestamp

NormalizerSpec == NormalizerInit /\ [][NormalizerNext]_vars


(***************************************************************************)
(* KeySpec: get_new_logs_only called directly for targets whose            *)
(* identifiers may contain the ':' of the key.                             *)
(***************************************************************************)
\* (app_id, component_name) pairs, all different
KeyTargets ==
    {<<Str1("a"), Str1("w")>>,
     <<<<"a", ":", "b">>, Str1("w")>>,
     <<Str1("a"), <<"b", ":", "w">>>>}

KeyInit ==
    /\ env = BaseEnv
    /\ pc = "unit_key"
    /\ InitObject

KeyGetNewLogsOnly ==
    /\ pc = "unit_key"
    /\ \E t \in KeyTargets, lines \in SeqsUpTo(Lines, MaxShort) :
         DoGetNewLogsOnly(lines, t[1], t[2])
    /\ UNCHANGED <<env, pc, exit_status, apps_config, cycle, frame>>

KeyNext == KeyGetNewLogsOnly

KeySpec == KeyInit /\ [][KeyNext]_vars


(***************************************************************************)
(* Properties.  `call` describes the most recent call of get_new_logs_only *)
(* (or batch_logs) and the dicts are as that call left them.               *)
(***************************************************************************)
TrackerCalled == call.fn = "get_new_logs_only"

HasState(key) == key \in DOMAIN last_log_hashes /\ key \in DOMAIN last_log_count

NoState(key) == key \notin DOMAIN last_log_hashes /\ key \notin DOMAIN last_log_count

\* C1 as stated: on the first observation of a key with N >= 0 lines
\* (N = 0 included) the Delta is empty and a state with count = N exists
\* afterwards.
C1_FirstObservationAnyLength ==
    (TrackerCalled /\ ~call.had_state) =>
        /\ call.ret = <<>>
        /\ HasState(call.key)
        /\ last_log_count[call.key] = Len(call.log_lines)

\* C1 amended: on the first observation of a key with N >= 1 lines the
\* Delta is empty and a state with count = N exists afterwards; with N = 0
\* lines the Delta is empty and no state is recorded for the key.
C1_FirstObservationNonEmpty ==
    (TrackerCalled /\ ~call.had_state) =>
        /\ call.ret = <<>>
        /\ call.log_lines # <<>> =>
             /\ HasState(call.key)
             /\ last_log_count[call.key] = Len(call.log_lines)
        /\ call.log_lines = <<>> => NoState(call.key)

C1_Witness ==
    /\ TrackerCalled
    /\ ~call.had_state
    /\ Len(call.log_lines) > last_n
    /\ call.ret = <<>>
    /\ HasState(call.key)
    /\ last_log_count[call.key] = Len(call.log_lines)
    /\ \E k \in DOMAIN last_log_count : k # call.key

\* C2: with a stored count k and a RawLineSet of length m > k whose first k
\* lines are the lines seen before, the Delta is the last m - k lines in
\* their order, for every k >= 0.
C2_PureGrowth ==
    (/\ TrackerCalled
     /\ call.had_state
     /\ Len(call.log_lines) > call.count_before
     /\ SubSeq(call.log_lines, 1, call.count_before) = call.observed_before) =>
        /\ Len(call.ret) = Len(call.log_lines) - call.count_before
        /\ \A k \in 1..Len(call.ret) :
             call.ret[k] = call.log_lines[call.count_before + k]

C2_Witness ==
    /\ TrackerCalled
    /\ call.had_state
    /\ call.count_before = 1
    /\ Len(call.log_lines) = 2
    /\ SubSeq(call.log_lines, 1, 1) = call.observed_before
    /\ call.ret = <<call.log_lines[2]>>

\* C3: with a stored count k and a RawLineSet of length m < k the Delta is
\* the whole new RawLineSet, all m lines in order.
C3_RestartDetection ==
    (/\ TrackerCalled
     /\ call.had_state
     /\ Len(call.log_lines) < call.count_before) =>
        call.ret = call.log_lines

C3_Witness ==
    /\ TrackerCalled
    /\ call.had_state
    /\ call.count_before > last_n
    /\ Len(call.log_lines) = 2
    /\ call.ret = call.log_lines

\* C4: when get_new_logs_only is called twice in a row for a target with
\* the same RawLineSet, the second call returns an empty Delta and leaves
\* the target's stored signature and count as the first call left them.
C4_NoChangeIdempotence ==
    (TrackerCalled /\ call.repeat) =>
        /\ call.ret = <<>>
        /\ IF call.had_state
           THEN /\ HasState(call.key)
                /\ last_log_hashes[call.key] = call.hash_before
                /\ last_log_count[call.key] = call.count_before
           ELSE NoState(call.key)

C4_Witness ==
    /\ TrackerCalled
    /\ call.repeat
    /\ call.had_state
    /\ Len(call.log_lines) = 2
    /\ call.ret = <<>>
    /\ last_log_count[call.key] = 2

RECURSIVE Concat(_)
Concat(chunks) == IF chunks = <<>> THEN <<>> ELSE Head(chunks) \o Concat(Tail(chunks))

\* ceil(a / b) for b > 0
CeilDiv(a, b) == (a + b - 1) \div b

\* C5: for a sequence of length L >= 0 and a batch size B > 0, the chunks
\* of batch_logs concatenated in order are the input, there are ceil(L/B)
\* of them (none for L = 0), and every chunk but the last has length B.
C5_BatchingCompleteness ==
    (call.fn = "batch_logs" /\ call.batch_size > 0) =>
        /\ ~call.raised
        /\ Concat(call.ret) = call.log_lines
        /\ Len(call.ret) = CeilDiv(Len(call.log_lines), call.batch_size)
        /\ \A k \in 1..Len(call.ret) :
             /\ k < Len(call.ret) => Len(call.ret[k]) = call.batch_size
             /\ Len(call.ret[k]) \in 1..call.batch_size

C5_Witness ==
    /\ call.fn = "batch_logs"
    /\ call.batch_size = 2
    /\ Len(call.log_lines) = 3
    /\ Len(call.ret) = 2
    /\ Len(call.ret[1]) = 2
    /\ Len(call.ret[2]) = 1


\* forward_logs is running or has just returned or raised, for apps_config[idx]
InForwardLogs ==
    pc \in {"get_app_logs", "parse_log_lines", "get_new_logs_only",
            "push_batch", "push_single", "return", "except_target"}

\* forward_logs returned a value (it neither raised nor was interrupted)
Returned == pc = "return" /\ result \in {"True", "False"}

\* the lines of a pushed record, in order
SentLines(record) ==
    [k \in 1..Len(record.streams[1].values) |-> record.streams[1].values[k].line]

\* a push of exactly this batch of lines
IsPushOf(attempt, batch) ==
    /\ Len(attempt.record.streams) = 1
    /\ SentLines(attempt.record) = [k \in 1..Len(batch) |-> PrettyLog(batch[k])]

SomePushSucceeded == \E k \in 1..Len(attempts) : attempts[k].ok

\* C6: when forward_logs splits a Delta into n batches, every batch is built
\* and its push attempted once, in Delta order, whether or not earlier
\* pushes failed, and the result is success whenever one push succeeded.
C6_PartialBatchFailureIsolation ==
    (InForwardLogs /\ batches # <<>>) =>
        /\ Concat(batches) = new_logs
        /\ Len(attempts) <= Len(batches)
        /\ \A k \in 1..Len(attempts) : IsPushOf(attempts[k], batches[k])
        /\ pc = "push_batch" => (i <= Len(batches) /\ Len(attempts) = i - 1)
        /\ pc # "push_batch" =>
             /\ Returned
             /\ Len(attempts) = Len(batches)
             /\ SomePushSucceeded => result = "True"

C6_Witness ==
    /\ Returned
    /\ Len(batches) = 3
    /\ Len(attempts) = 3
    /\ attempts[1].ok
    /\ ~attempts[2].ok
    /\ attempts[3].ok
    /\ result = "True"

\* the fetch failed: get_app_logs returned nothing, or the live fetch failed
FetchFailed == logs \in {"None", "empty"} \/ live = "error"

\* there was nothing to send: the fetch went through and the RawLineSet or
\* the Delta was empty
NothingToSend ==
    /\ live = "ok"
    /\ \/ all_log_lines = <<>>
       \/ (TrackerCalled /\ new_logs = <<>>)

\* C7: forward_logs reports success if one batch was pushed successfully
\* and when there was nothing to send (empty RawLineSet, or empty Delta by
\* first observation or no change); it reports failure only if the fetch
\* failed or every push failed.
C7_TargetResult ==
    Returned =>
        (result = "True" <=> (SomePushSucceeded \/ NothingToSend))

\* every push made by this call succeeded
EveryPushSucceeded == \A k \in 1..Len(attempts) : attempts[k].ok

RECURSIVE AllSentLines(_)
AllSentLines(pushes) ==
    IF pushes = <<>> THEN <<>>
    ELSE SentLines(Head(pushes).record) \o AllSentLines(Tail(pushes))

\* C8: when the fetch succeeds, the Delta is not empty, batch_size > 0 and
\* every push succeeds, the records pushed, in push order, hold one value
\* per Delta line, their lines are those of the Delta in order, each record
\* has 1..batch_size values and the target's app_id and component labels;
\* with an empty Delta no push is made.
C8_EndToEndDelivery ==
    /\ (InForwardLogs /\ new_logs = <<>>) => attempts = <<>>
    /\ (Returned /\ new_logs # <<>> /\ env.BATCH_SIZE > 0 /\ EveryPushSucceeded) =>
          /\ attempts # <<>>
          /\ AllSentLines(attempts) = [k \in 1..Len(new_logs) |-> PrettyLog(new_logs[k])]
          /\ \A k \in 1..Len(attempts) :
               LET r == attempts[k].record
               IN  /\ Len(r.streams) = 1
                   /\ Len(r.streams[1].values) \in 1..env.BATCH_SIZE
                   /\ r.streams[1].stream.app_id = target.app_id
                   /\ r.streams[1].stream.component = target.component_name

C8_Witness ==
    /\ Returned
    /\ env.BATCH_SIZE = 2
    /\ call.had_state
    /\ Len(new_logs) = 3
    /\ Len(attempts) = 2
    /\ EveryPushSucceeded
    /\ Len(attempts[1].record.streams[1].values) = 2
    /\ Len(attempts[2].record.streams[1].values) = 1
    /\ target.app_id = Str1("b")

\* the positions 1..n in order
Positions(n) == [k \in 1..n |-> k]

\* C9: in every cycle forward_logs is called once for every target, in list
\* order; when it raises for a target, the later targets of the list are
\* still processed in that cycle.
C9_PerTargetIsolation ==
    /\ pc = "for" => (idx <= Len(apps_config) + 1 /\ calls = Positions(idx - 1))
    /\ InForwardLogs => (idx <= Len(apps_config) /\ calls = Positions(idx))
    /\ pc \in {"sleep", "except_loop"} => calls = Positions(Len(apps_config))
    /\ \A k \in 1..Len(raised_at) : raised_at[k] \in 1..Len(calls)

C9_Witness ==
    /\ pc = "sleep"
    /\ Len(apps_config) = 2
    /\ raised_at = <<1>>
    /\ calls = <<1, 2>>
    /\ result = "True"

\* the process is in the loop of run_continuous_multi
InLoop == InTry \/ pc = "except_loop"

\* C10: whatever APPS_CONFIG, APP_ID and COMPONENT_NAME are, the process
\* enters the scheduling loop only with a non-empty list of targets, and
\* otherwise ends with a non-zero status before the loop.
C10_RefusesEmptyTargetSet ==
    /\ InLoop => apps_config # <<>>
    /\ pc = "exited" => (exit_status # 0 /\ calls = <<>>)


\* forward_logs ended for this target without a push having been attempted
EndedWithoutPush ==
    /\ pc \in {"return", "except_target"}
    /\ attempts = <<>>

\* C11: the process enters the loop only with BATCH_SIZE > 0 (a
\* non-positive value is refused at start-up), and forward_logs never ends,
\* by returning or by raising, with a non-empty Delta taken from the
\* tracker and no push attempted.
C11_BatchSizeRejected ==
    /\ InLoop => env.BATCH_SIZE > 0
    /\ (TrackerCalled /\ new_logs # <<>>) => ~EndedWithoutPush

\* the line without the token at position m
WithoutToken(log_line, m) ==
    SubSeq(log_line, 1, m - 1) \o SubSeq(log_line, m + 1, Len(log_line))

\* the positions of the timestamp-shaped tokens of a line
StampPositions(log_line) ==
    {k \in 1..Len(log_line) : log_line[k].ts # <<>>}

\* C12: format_log_timestamp never raises; when the first timestamp-shaped
\* token of the line names an instant it returns that instant reformatted
\* and the line with that one token removed (later timestamp-shaped tokens
\* kept) and trimmed; otherwise it returns None and the line as it was.
C12_FirstTokenRemoved ==
    call.fn = "format_log_timestamp" =>
        /\ ~call.raised
        /\ LET line == call.log_lines
               hits == StampPositions(line)
           IN  IF hits # {} /\ ParsesAsInstant(line[FirstMatch(line)].ts)
               THEN LET m == CHOOSE k \in hits : \A j \in hits : k <= j
                    IN  /\ call.ret[1] = SubSeq(line[m].ts, 1, 6)
                        /\ call.ret[2] = StripLine(WithoutToken(line, m))
               ELSE call.ret = <<None, line>>


\* the lines that occur in a sequence of lines
LinesOf(log_lines) == {log_lines[k] : k \in 1..Len(log_lines)}

\* C13: when a poll of a target follows a poll of the same target, every
\* line of the new RawLineSet that did not occur in the previous RawLineSet
\* is in the Delta returned (whatever happened to the log in between:
\* reset, truncation, rotation, regrowth past the stored count), and the
\* Delta holds lines of the new RawLineSet only and no more of them than it
\* has.
C13_NoGaps ==
    [][(/\ call.fn = "get_new_logs_only"
        /\ call'.fn = "get_new_logs_only"
        /\ call'.key = call.key) =>
           /\ LinesOf(call'.log_lines) \ LinesOf(call.log_lines)
                 \subseteq LinesOf(call'.ret)
           /\ LinesOf(call'.ret) \subseteq LinesOf(call'.log_lines)
           /\ Len(call'.ret) <= Len(call'.log_lines)]_vars


\* the last min(W, length) lines of a list of lines, W = 50
TailWindow(log_lines) ==
    SubSeq(log_lines, Max(1, Len(log_lines) - 49), Len(log_lines))

\* the signature of the tail window: a digest of its lines joined by "\n"
Signature(log_lines) == [md5 |-> PyJoin(Newline, TailWindow(log_lines))]

\* C14: when the stored count of a target equals the length of the new
\* RawLineSet, the Delta is the last min(50, length) lines of it, in order,
\* if the signature of its tail window differs from the stored one, and
\* empty if the signatures are equal, also when lines before the window
\* differ from those seen before.
C14_InPlaceRotation ==
    (/\ TrackerCalled
     /\ call.had_state
     /\ Len(call.log_lines) = call.count_before) =>
        IF Signature(call.log_lines) # call.hash_before
        THEN call.ret = TailWindow(call.log_lines)
        ELSE call.ret = <<>>

C14_Witness ==
    /\ TrackerCalled
    /\ call.had_state
    /\ call.count_before = last_n + 2
    /\ Len(call.log_lines) = last_n + 2
    /\ Signature(call.log_lines) # call.hash_before
    /\ Len(call.ret) = last_n
    /\ call.ret[last_n] = call.log_lines[last_n + 2]
    /\ call.ret[1] = call.log_lines[3]

\* C15: the keys with a stored signature are the keys with a stored count,
\* and for every target that was passed a non-empty RawLineSet the stored
\* count is the length, and the stored signature the tail-window signature,
\* of the last non-empty RawLineSet passed for it.
C15_TracksLatestObservation ==
    /\ DOMAIN last_log_hashes = DOMAIN last_log_count
    /\ \A key \in DOMAIN latest :
         /\ HasState(key)
         /\ last_log_count[key] = Len(latest[key])
         /\ last_log_hashes[key] = Signature(latest[key])

C15_Witness ==
    /\ TrackerCalled
    /\ call.had_state
    /\ Cardinality(DOMAIN latest) = 2
    /\ latest[call.key] = call.log_lines
    /\ call.log_lines # call.observed_before
    /\ observed[call.key] # latest[call.key]
    /\ last_log_count[call.key] = last_n + 1
    /\ \E key \in DOMAIN latest : last_log_count[key] = 2


\* the lines of the Delta whose push failed in this call of forward_logs
FailedLines ==
    IF batches # <<>>
    THEN UNION {LinesOf(batches[k]) : k \in {j \in 1..Len(attempts) : ~attempts[j].ok}}
    ELSE IF attempts # <<>> /\ ~attempts[1].ok THEN LinesOf(new_logs)
    ELSE {}

\* the Delta the next poll of this target gets from the tracker as it is
\* now, when the fetch returns the lines of this poll followed by `more`
NextDelta(more) ==
    get_new_logs_only(last_log_hashes, last_log_count, all_log_lines \o more,
                      target.app_id, target.component_name).ret

\* C16: when forward_logs has returned and the push of some batch of the
\* Delta failed, the tracker is left so that the next poll of the target,
\* with the log unchanged or appended to, has the lines of the failed
\* batches in its Delta again.
C16_NextCycleRetries ==
    (Returned /\ FailedLines # {}) =>
        \A more \in SeqsUpTo(Lines, 1) :
            FailedLines \subseteq LinesOf(NextDelta(more))

\* C17: the loop of run_continuous_multi never ends by an exception: an
\* interrupt, wherever it arrives, ends it normally, and an error of the
\* loop body is followed by the fallback sleep and a new cycle.
C17_CleanStop ==
    /\ pc # "crashed"
    /\ pc = "stopped" => exit_status = 0
    /\ ~InLoop => pc \in {"main", "exited", "stopped"}

\* C18: when the loop was stopped by an interrupt that arrived during
\* forward_logs (with a valid batch size), and the tracker had handed out a
\* non-empty Delta, a push was attempted for every batch of that Delta.
C18_InterruptFinishesInFlight ==
    (/\ pc = "stopped"
     /\ env.BATCH_SIZE > 0
     /\ TrackerCalled
     /\ new_logs # <<>>) =>
        IF Len(new_logs) > env.BATCH_SIZE
        THEN Len(attempts) = Len(batches)
        ELSE Len(attempts) = 1

\* forward_logs is running for a target whose fetch failed or brought no
\* line: get_app_logs returned nothing, the live fetch failed, or the
\* RawLineSet is empty
Unfetched ==
    /\ InForwardLogs
    /\ \/ logs \in {"None", "empty"}
       \/ live \in {"error", "no_url"}
       \/ (live = "ok" /\ all_log_lines = <<>>)

\* C19: when the fetch of a target fails or brings no line, forward_logs
\* returns False at once: it makes no push, does not fetch again, does not
\* call the tracker, and no step it takes changes the stored signature or
\* count of any target.
C19_FailedFetchNoEffect ==
    [][/\ Unfetched' =>
            /\ pc' = "return"
            /\ result' = "False"
            /\ attempts' = <<>>
            /\ ~TrackerCalled'
            /\ calls' = Positions(idx')
            /\ UNCHANGED <<last_log_hashes, last_log_count>>
       /\ (InForwardLogs' /\ ~TrackerCalled') =>
            UNCHANGED <<last_log_hashes, last_log_count>>]_vars

C19_Witness ==
    /\ Unfetched
    /\ live = "error"
    /\ pc = "return"
    /\ result = "False"
    /\ attempts = <<>>
    /\ idx = 2
    /\ \A k \in 1..2 : HasState(TrackerKey(apps_config[k].app_id,
                                            apps_config[k].component_name))


\* the (app_id, component_name) pair of a call
PairOf(c) == <<c.app_id, c.component_name>>

\* the stored signature and count under a key, <<>> when there is none
StateOf(hashes, counts, key) ==
    IF key \in DOMAIN hashes /\ key \in DOMAIN counts
    THEN <<hashes[key], counts[key]>>
    ELSE <<>>

\* C20: when get_new_logs_only is called for a target after a call for a
\* target with a different (app_id, component_name) pair, whatever the
\* identifiers contain, the two pairs have different keys and the call
\* leaves the stored signature and count of the earlier target as they
\* were.
C20_PerTargetOwnership ==
    [][(/\ call.fn = "get_new_logs_only"
        /\ call'.fn = "get_new_logs_only"
        /\ PairOf(call') # PairOf(call)) =>
           /\ call'.key # call.key
           /\ StateOf(last_log_hashes', last_log_count', call.key)
                = StateOf(last_log_hashes, last_log_count, call.key)]_vars

=============================================================================
